---- MODULE Spec2Model ----
(***************************************************************************)
(* A model of ihop: the offset interval index (src/chunk_map.rs), the      *)
(* chunked block device built from a store header (src/mount.rs), the      *)
(* chunk store and archive ingestion (src/clone.rs) and the store header   *)
(* file (src/clone.rs, src/mount.rs).                                      *)
(*                                                                         *)
(* Each subsystem has a specification of its own (SpecMap, SpecDev,        *)
(* SpecClone, SpecHeader); the variables of the other subsystems stay at   *)
(* their idle values.                                                      *)
(***************************************************************************)
EXTENDS Integers, Sequences, FiniteSets, TLC

VARIABLES
    btm,        \* ChunkMap.btm: the entries in ascending key order
    query,      \* the argument of the last iter_overlapping call, or NoQuery
    found,      \* what that call yielded, in the order it was yielded
    dictionary, \* the StoreDictionary a device is made from
    device,     \* the IhopBackedDevice: state and chunk_location_map
    rd,         \* the last IhopBackedDevice::read: arguments and outcome
    store,      \* the chunk files under <store root>/chunks: path -> bytes
    output,     \* the header file: whether it exists, and its bytes
    mnt,        \* the outcome of mount on the header file
    unreadable, \* the chunk files whose reads fail with an I/O error
    cl,         \* the running or last ingestion: position and locals
    prev,       \* the ingestion before it: whether it completed verified
    fdev,       \* the plain-file device: its file, cursor and last read
    srv,        \* new_device: its position, RequestStream and reply_buf
    worker,     \* the thread new_device spawns for the do_it call
    wire,       \* the socket pair: bytes to the server, its last write
    calls       \* the control calls issued on the device node, in order

mapVars == <<btm, query, found>>
devVars == <<dictionary, device, rd>>
hdrVars == <<output, mnt>>
cloneVars == <<unreadable, cl, prev>>
fileVars == <<fdev>>
srvVars == <<srv, worker, wire, calls>>
vars == <<btm, query, found, dictionary, device, rd, store, output, mnt,
          unreadable, cl, prev, fdev, srv, worker, wire, calls>>

(***************************************************************************)
(* Bounds of the model.                                                    *)
(***************************************************************************)
MaxOff == 3
MaxSize == 3
MaxEntries == 2
MaxChunkSize == 3
MaxOrder == 3
MaxReadLen == 4
MaxBlockSize == 3
HashLen == 2
MaxCloneChunk == 2

Min(a, b) == IF a <= b THEN a ELSE b

SeqRange(s) == {s[i] : i \in 1..Len(s)}

RECURSIVE Rev(_)
Rev(s) == IF s = <<>> THEN <<>> ELSE Append(Rev(Tail(s)), Head(s))

(***************************************************************************)
(* src/chunk_map.rs                                                        *)
(***************************************************************************)
ChunkOffsetSize(offset, size) == [offset |-> offset, size |-> size]

End(loc) == loc.offset + loc.size

\* impl Ord for ChunkOffsetSize: by offset, ties broken by size.
CmpLess(a, b) ==
    \/ a.offset < b.offset
    \/ a.offset = b.offset /\ a.size < b.size

Key(e) == ChunkOffsetSize(e.offset, e.size)

\* BTreeMap::insert: an entry with an equal key has its value replaced,
\* otherwise the entry goes to its place in the key order.
BtmInsert(m, location, value) ==
    LET e == [offset |-> location.offset, size |-> location.size, value |-> value]
        below == SelectSeq(m, LAMBDA x : CmpLess(Key(x), location))
        above == SelectSeq(m, LAMBDA x : CmpLess(location, Key(x)))
    IN  below \o <<e>> \o above

\* BTreeMap::range((Unbounded, Excluded(upper))): the entries below upper,
\* ascending.
BtmRangeBelow(m, upper) == SelectSeq(m, LAMBDA x : CmpLess(Key(x), upper))

\* Iterator::take_while(|loc| location_offset < loc.end()): the longest
\* prefix whose entries all end after location_offset.
RECURSIVE TakeWhileEndsAfter(_, _)
TakeWhileEndsAfter(s, location_offset) ==
    IF s = <<>> THEN <<>>
    ELSE IF location_offset < End(Head(s))
         THEN <<Head(s)>> \o TakeWhileEndsAfter(Tail(s), location_offset)
         ELSE <<>>

\* iter_overlapping with the upper bound Included(location.end()) in place
\* of Excluded((location.end(), 0)): intervals that start at the query's end
\* are let in.
IterOverlappingInclusive(m, location) ==
    TakeWhileEndsAfter(
        Rev(BtmRangeBelow(m, ChunkOffsetSize(End(location) + 1, 0))),
        location.offset)

\* ChunkMap::iter_overlapping: range below (location.end(), 0), reversed,
\* cut at the first entry that ends at or before location.offset.
IterOverlapping(m, location) ==
    TakeWhileEndsAfter(
        Rev(BtmRangeBelow(m, ChunkOffsetSize(End(location), 0))),
        location.offset)

Locations == {ChunkOffsetSize(o, s) : o \in 0..MaxOff, s \in 0..MaxSize}
MapValues == {"p", "q"}
NoQuery == [offset |-> -1, size |-> 0]

\* StoreDictionary::default(): what a decode starts from.
NoDictionary ==
    [application_version |-> <<>>, chunker_params |-> "none",
     source_checksum |-> <<>>, source_total_size |-> 0,
     source_order |-> <<>>, chunk_descriptors |-> <<>>]

MapIdle == btm = <<>> /\ query = NoQuery /\ found = <<>>
DevIdle ==
    /\ dictionary = NoDictionary
    /\ device = [state |-> "none", chunk_location_map |-> <<>>]
    /\ rd = [status |-> "none"]
StoreIdle == store = <<>>
HdrIdle ==
    /\ output = [exists |-> FALSE, bytes |-> <<>>]
    /\ mnt = [status |-> "none"]

CloneIdlePc ==
    [pc |-> "idle", verify |-> FALSE, force |-> FALSE, fetch_set |-> {},
     chunks_left |-> {}, transferred |-> 0, written |-> <<>>,
     header_written |-> 0, why |-> ""]
CloneIdle ==
    /\ unreadable = {}
    /\ cl = CloneIdlePc
    /\ prev = [verified_done |-> FALSE, header |-> <<>>]

\* No plain-file device is mounted, no device node is served.
FileIdle == fdev = [state |-> "none"]
SrvIdle ==
    /\ srv = [pc |-> "none"]
    /\ worker = [state |-> "none"]
    /\ wire = [state |-> "none"]
    /\ calls = <<>>

InitMap ==
    MapIdle /\ DevIdle /\ StoreIdle /\ HdrIdle /\ CloneIdle /\ FileIdle /\ SrvIdle

\* ChunkMap::insert. The iterator of a query borrows the map, so it has
\* been dropped when the map is changed.
MapInsert ==
    \E location \in Locations, value \in MapValues :
        /\ query = NoQuery
        /\ \/ Len(btm) < MaxEntries
           \/ \E i \in 1..Len(btm) : Key(btm[i]) = location
        /\ btm' = BtmInsert(btm, location, value)
        /\ query' = NoQuery
        /\ found' = <<>>
        /\ UNCHANGED <<fileVars, srvVars, devVars, store, hdrVars, cloneVars>>

\* ChunkMap::iter_overlapping(location), collected.
MapQuery ==
    \E location \in Locations :
        /\ query = NoQuery
        /\ query' = location
        /\ found' = IterOverlapping(btm, location)
        /\ UNCHANGED <<fileVars, srvVars, btm, devVars, store, hdrVars, cloneVars>>

\* The iterator iter_overlapping returned is dropped.
MapQueryDropped ==
    /\ query # NoQuery
    /\ query' = NoQuery
    /\ found' = <<>>
    /\ UNCHANGED <<fileVars, srvVars, btm, devVars, store, hdrVars, cloneVars>>

NextMap == MapInsert \/ MapQuery \/ MapQueryDropped

SpecMap == InitMap /\ [][NextMap]_vars

(***************************************************************************)
(* Content hashes and the store layout (src/clone.rs).                     *)
(***************************************************************************)
\* A digest of a byte string, as a number: the bytes weighted by position,
\* summed modulo a prime. It stands for Blake2b, which the model cannot
\* compute; changing one byte, or the length, changes it.
RECURSIVE WeightedSum(_, _, _)
WeightedSum(bytes, lo, hi) ==
    IF lo > hi THEN 0
    ELSE IF lo = hi THEN ((bytes[lo] + 1) * (1 + lo * 263)) % 65521
    ELSE LET mid == (lo + hi) \div 2
         IN  (WeightedSum(bytes, lo, mid) + WeightedSum(bytes, mid + 1, hi)) % 65521

DigestNumber(bytes) == (7 + WeightedSum(bytes, 1, Len(bytes))) % 65521

\* to_le_bytes: the little-endian base-256 digits of n, width of them.
RECURSIVE LeBytes(_, _)
LeBytes(n, width) ==
    IF width = 0 THEN <<>>
    ELSE <<n % 256>> \o LeBytes(n \div 256, width - 1)

\* HashSum::b2_digest(buf, len): the digest of buf cut to len bytes.
B2Digest(buf, len) == LeBytes(DigestNumber(buf), len)

\* chunk_path_from_hash: chunks/<first two bytes in hex>/<hash>.chunk
ChunkPath(hash) == <<"chunks", SubSeq(hash, 1, 2), hash, "chunk">>

(***************************************************************************)
(* The chunked device (src/mount.rs).                                      *)
(***************************************************************************)
\* u64 and usize subtraction in a build without overflow checks wraps; the
\* word is modelled 20 bits wide, far above every quantity of the model.
WrappingSub(a, b) == (a - b) % (2 ^ 20)

\* The descriptors are numbered from 0, as source_order numbers them.
ChunkIds == {0, 1}

\* The bytes of the chunk with descriptor index id, when it has size bytes.
ChunkBytes(id, size) == [j \in 1..size |-> 10 * (id + 1) + j]

Descriptor(id, size) ==
    [checksum |-> B2Digest(ChunkBytes(id, size), HashLen), source_size |-> size]

RECURSIVE SumSizes(_, _)
SumSizes(descriptors, order) ==
    IF order = <<>> THEN 0
    ELSE descriptors[Head(order) + 1].source_size + SumSizes(descriptors, Tail(order))

ValidOrder(d) ==
    \A k \in 1..Len(d.source_order) : d.source_order[k] < Len(d.chunk_descriptors)

\* make_device, lines 74-85: walk source_order, insert each chunk's interval
\* at the running offset. Yields Panicked when an index is out of bounds.
Panicked == [state |-> "panicked", chunk_location_map |-> <<>>]

RECURSIVE MakeMap(_, _, _, _)
MakeMap(d, k, offset, map) ==
    IF k > Len(d.source_order) THEN [state |-> "built", chunk_location_map |-> map]
    ELSE LET index == d.source_order[k]
         IN  IF index >= Len(d.chunk_descriptors) THEN Panicked
             ELSE LET cd == d.chunk_descriptors[index + 1]
                      chunk_path == ChunkPath(cd.checksum)
                  IN  MakeMap(d, k + 1, offset + cd.source_size,
                              BtmInsert(map, ChunkOffsetSize(offset, cd.source_size),
                                        chunk_path))

\* The number of blocks rounded up to whole blocks.
BlockCountRoundedUp(d, block_size) == (d.source_total_size + block_size - 1) \div block_size

\* make_device, line 87.
block_count(d, block_size) == d.source_total_size \div block_size

\* make_device walking source_order from its end.
MakeDeviceFromEnd(d, block_size) ==
    LET made == MakeMap([d EXCEPT !.source_order = Rev(@)], 1, 0, <<>>)
    IN  IF made.state = "built"
        THEN [state |-> "built", chunk_location_map |-> made.chunk_location_map,
              block_size |-> block_size, block_count |-> block_count(d, block_size)]
        ELSE made

\* make_device, lines 69-102.
make_device(d, block_size) ==
    LET made == MakeMap(d, 1, 0, <<>>)
    IN  IF made.state = "built"
        THEN [state |-> "built", chunk_location_map |-> made.chunk_location_map,
              block_size |-> block_size, block_count |-> block_count(d, block_size)]
        ELSE made

\* locations.sort_by(offset): a stable sort, so entries of equal offset keep
\* the order iter_overlapping yielded them in.
RECURSIVE InsertByOffset(_, _)
InsertByOffset(sorted, e) ==
    IF sorted = <<>> THEN <<e>>
    ELSE IF e.offset < Head(sorted).offset THEN <<e>> \o sorted
         ELSE <<Head(sorted)>> \o InsertByOffset(Tail(sorted), e)

RECURSIVE StableSort(_, _)
StableSort(done, rest) ==
    IF rest = <<>> THEN done
    ELSE StableSort(InsertByOffset(done, Head(rest)), Tail(rest))

\* read without the sort: the locations in the order iter_overlapping
\* yields them (descending).
Unsorted(locations) == locations

SortByOffset(locations) == StableSort(<<>>, locations)

ReadPanic(why, buf, buf_offset) ==
    [status |-> "panic", why |-> why, buf |-> buf, buf_offset |-> buf_offset]

\* The loop of IhopBackedDevice::read over the sorted locations. checked
\* says whether the build checks arithmetic overflow.
RECURSIVE ReadLoop(_, _, _, _, _, _)
ReadLoop(files, locations, offset, buf, buf_offset, checked) ==
    IF locations = <<>>
    THEN [status |-> "ok", why |-> "", buf |-> buf, buf_offset |-> buf_offset]
    ELSE
    LET location == Head(locations)
        path == location.value
    IN
    IF path \notin DOMAIN files
    THEN ReadPanic("open chunk file", buf, buf_offset)
    ELSE IF checked /\ offset < location.offset
    THEN ReadPanic("attempt to subtract with overflow", buf, buf_offset)
    ELSE
    LET offset_in_file == WrappingSub(offset, location.offset)
    IN
    IF checked /\ location.size < offset_in_file
    THEN ReadPanic("attempt to subtract with overflow", buf, buf_offset)
    ELSE
    LET read_from_file == Min(Len(buf) - buf_offset,
                              WrappingSub(location.size, offset_in_file))
        chunk_file == files[path]
    IN
    IF read_from_file > 0 /\ offset_in_file + read_from_file > Len(chunk_file)
    THEN ReadPanic("read chunk from file", buf, buf_offset)
    ELSE ReadLoop(files, Tail(locations), offset + read_from_file,
                  [i \in 1..Len(buf) |->
                      IF buf_offset < i /\ i <= buf_offset + read_from_file
                      THEN chunk_file[offset_in_file + i - buf_offset]
                      ELSE buf[i]],
                  buf_offset + read_from_file, checked)

\* What the caller's buffer holds before the read.
Stale == -1

\* IhopBackedDevice::read(offset, buf) with len(buf) = len.
DeviceRead(files, map, offset, len, checked) ==
    ReadLoop(files,
             SortByOffset(IterOverlapping(map, ChunkOffsetSize(offset, len))),
             offset, [i \in 1..len |-> Stale], 0, checked)

RECURSIVE SeqsUpTo(_, _)
SeqsUpTo(S, n) ==
    IF n = 0 THEN {<<>>}
    ELSE LET shorter == SeqsUpTo(S, n - 1)
         IN  shorter \cup {Append(q, x) : q \in shorter, x \in S}

\* The store of a finished ingestion: every chunk's file holds its bytes.
StoreOf(descriptors) ==
    LET ids == 0..(Len(descriptors) - 1)
        paths == {ChunkPath(descriptors[id + 1].checksum) : id \in ids}
    IN  [p \in paths |->
            LET id == CHOOSE id \in ids : ChunkPath(descriptors[id + 1].checksum) = p
            IN  ChunkBytes(id, descriptors[id + 1].source_size)]

\* crate::PKG_VERSION, "0.1.0", as bytes.
PKG_VERSION == <<48, 46, 49, 46, 48>>

\* The encoded ChunkerParameters of the archive: one varint field.
ChunkerParams == <<8, 32>>

\* ChunkStore::dictionary: the StoreDictionary of an archive whose chunk
\* with descriptor index id has sizes[id] bytes and whose rebuild order is
\* order.
StoreDictionaryOf(sizes, order) ==
    LET descriptors == [i \in 1..Cardinality(ChunkIds) |-> Descriptor(i - 1, sizes[i - 1])]
        valid == \A k \in 1..Len(order) : order[k] \in ChunkIds
        source == IF valid
                  THEN [total |-> SumSizes(descriptors, order),
                        checksum |-> B2Digest(<<SumSizes(descriptors, order)>> \o order, HashLen)]
                  ELSE [total |-> 0, checksum |-> B2Digest(<<>>, HashLen)]
    IN  [application_version |-> PKG_VERSION,
         chunker_params |-> ChunkerParams,
         source_checksum |-> source.checksum,
         source_total_size |-> source.total,
         source_order |-> order,
         chunk_descriptors |-> descriptors]

\* The headers a device is made from: two descriptors of sizes from 0, any
\* order, an index past the descriptors included.
Dictionaries ==
    {StoreDictionaryOf(sizes, order) :
        sizes \in [ChunkIds -> 0..MaxChunkSize],
        order \in SeqsUpTo(ChunkIds \cup {Cardinality(ChunkIds)}, MaxOrder)}

InitDev ==
    /\ MapIdle
    /\ FileIdle
    /\ SrvIdle
    /\ HdrIdle
    /\ CloneIdle
    /\ dictionary \in Dictionaries
    /\ store = StoreOf(dictionary.chunk_descriptors)
    /\ device = [state |-> "none", chunk_location_map |-> <<>>]
    /\ rd = [status |-> "none"]

\* mount_ihop, line 140: the device is made from the decoded dictionary.
MakeDevice ==
    /\ device.state = "none"
    /\ \E block_size \in 1..MaxBlockSize : device' = make_device(dictionary, block_size)
    /\ UNCHANGED <<fileVars, srvVars, mapVars, dictionary, rd, store, hdrVars, cloneVars>>

\* A read request served by the device: the whole of IhopBackedDevice::read.
\* A panic ends the process.
Read ==
    \E offset \in 0..(MaxChunkSize * MaxOrder + 1), len \in 0..MaxReadLen,
       checked \in BOOLEAN :
        /\ device.state = "built"
        /\ rd.status = "none"
        /\ rd' = [offset |-> offset, len |-> len] @@
                 DeviceRead(store, device.chunk_location_map, offset, len, checked)
        /\ UNCHANGED <<fileVars, srvVars, mapVars, dictionary, device, store, hdrVars, cloneVars>>

\* read has returned Ok(()): the caller takes the buffer and may ask again.
ReadReturned ==
    /\ rd.status = "ok"
    /\ rd' = [status |-> "none"]
    /\ UNCHANGED <<fileVars, srvVars, mapVars, dictionary, device, store, hdrVars, cloneVars>>

NextDev == MakeDevice \/ Read \/ ReadReturned

SpecDev == InitDev /\ [][NextDev]_vars

(***************************************************************************)
(* The dictionary's wire encoding. The message schema is compiled from     *)
(* the repository's .proto file, which is not among the sources: the       *)
(* encoding is modelled as protobuf's (tags, varints, length-delimited     *)
(* fields, defaults omitted), fields numbered in the order the spec lists. *)
(***************************************************************************)
RECURSIVE Varint(_)
Varint(n) ==
    IF n < 128 THEN <<n>> ELSE <<128 + (n % 128)>> \o Varint(n \div 128)

Tag(field, wire_type) == Varint(field * 8 + wire_type)

LenDelimited(field, payload) == Tag(field, 2) \o Varint(Len(payload)) \o payload

RECURSIVE ConcatAll(_)
ConcatAll(ss) == IF ss = <<>> THEN <<>> ELSE Head(ss) \o ConcatAll(Tail(ss))

EncodeDescriptor(cd) ==
    (IF cd.checksum = <<>> THEN <<>> ELSE LenDelimited(1, cd.checksum))
    \o (IF cd.source_size = 0 THEN <<>> ELSE Tag(2, 0) \o Varint(cd.source_size))

EncodeDictionary(d) ==
    (IF d.application_version = <<>> THEN <<>>
     ELSE LenDelimited(1, d.application_version))
    \o (IF d.chunker_params = "none" THEN <<>>
        ELSE LenDelimited(2, d.chunker_params))
    \o (IF d.source_checksum = <<>> THEN <<>>
        ELSE LenDelimited(3, d.source_checksum))
    \o (IF d.source_total_size = 0 THEN <<>>
        ELSE Tag(4, 0) \o Varint(d.source_total_size))
    \o (IF d.source_order = <<>> THEN <<>>
        ELSE LenDelimited(5, ConcatAll([k \in 1..Len(d.source_order) |->
                                            Varint(d.source_order[k])])))
    \o ConcatAll([k \in 1..Len(d.chunk_descriptors) |->
                    LenDelimited(6, EncodeDescriptor(d.chunk_descriptors[k]))])

DecodeError == [ok |-> FALSE]

\* A varint at pos: its value and the position after it.
RECURSIVE ReadVarint(_, _)
ReadVarint(bytes, pos) ==
    IF pos > Len(bytes) THEN DecodeError
    ELSE IF bytes[pos] < 128
         THEN [ok |-> TRUE, value |-> bytes[pos], next |-> pos + 1]
         ELSE LET rest == ReadVarint(bytes, pos + 1)
              IN  IF ~rest.ok \/ rest.value >= 2 ^ 20 THEN DecodeError
                  ELSE [ok |-> TRUE,
                        value |-> (bytes[pos] - 128) + 128 * rest.value,
                        next |-> rest.next]

\* The varints packed in a payload.
RECURSIVE ReadPacked(_, _)
ReadPacked(bytes, pos) ==
    IF pos > Len(bytes) THEN [ok |-> TRUE, value |-> <<>>]
    ELSE LET v == ReadVarint(bytes, pos)
         IN  IF ~v.ok THEN DecodeError
             ELSE LET rest == ReadPacked(bytes, v.next)
                  IN  IF ~rest.ok THEN DecodeError
                      ELSE [ok |-> TRUE, value |-> <<v.value>> \o rest.value]

\* One decoded field merged into the message: kind is "descriptor" or
\* "dictionary"; an unknown field is skipped.
RECURSIVE DecodeMessage(_, _, _, _)
MergeField(kind, msg, field, wire_type, v) ==
    IF kind = "descriptor" THEN
        CASE field = 1 ->
                IF wire_type # 2 THEN DecodeError
                ELSE [ok |-> TRUE, value |-> [msg EXCEPT !.checksum = v]]
          [] field = 2 ->
                IF wire_type # 0 THEN DecodeError
                ELSE [ok |-> TRUE, value |-> [msg EXCEPT !.source_size = v]]
          [] OTHER -> [ok |-> TRUE, value |-> msg]
    ELSE
        CASE field = 1 ->
                IF wire_type # 2 THEN DecodeError
                ELSE [ok |-> TRUE, value |-> [msg EXCEPT !.application_version = v]]
          [] field = 2 ->
                IF wire_type # 2 THEN DecodeError
                ELSE [ok |-> TRUE, value |-> [msg EXCEPT !.chunker_params = v]]
          [] field = 3 ->
                IF wire_type # 2 THEN DecodeError
                ELSE [ok |-> TRUE, value |-> [msg EXCEPT !.source_checksum = v]]
          [] field = 4 ->
                IF wire_type # 0 THEN DecodeError
                ELSE [ok |-> TRUE, value |-> [msg EXCEPT !.source_total_size = v]]
          [] field = 5 ->
                IF wire_type = 0
                THEN [ok |-> TRUE,
                      value |-> [msg EXCEPT !.source_order = Append(@, v)]]
                ELSE IF wire_type # 2 THEN DecodeError
                ELSE LET packed == ReadPacked(v, 1)
                     IN  IF ~packed.ok THEN DecodeError
                         ELSE [ok |-> TRUE,
                               value |-> [msg EXCEPT !.source_order = @ \o packed.value]]
          [] field = 6 ->
                IF wire_type # 2 THEN DecodeError
                ELSE LET cd == DecodeMessage("descriptor", v, 1,
                                             [checksum |-> <<>>, source_size |-> 0])
                     IN  IF ~cd.ok THEN DecodeError
                         ELSE [ok |-> TRUE,
                               value |-> [msg EXCEPT !.chunk_descriptors = Append(@, cd.value)]]
          [] OTHER -> [ok |-> TRUE, value |-> msg]

\* prost::Message::decode: the fields from pos on, merged into msg.
DecodeMessage(kind, bytes, pos, msg) ==
    IF pos > Len(bytes) THEN [ok |-> TRUE, value |-> msg]
    ELSE
    LET tag == ReadVarint(bytes, pos)
    IN
    IF ~tag.ok \/ tag.value < 8 THEN DecodeError
    ELSE
    LET field == tag.value \div 8
        wire_type == tag.value % 8
    IN
    IF wire_type = 0 THEN
        LET v == ReadVarint(bytes, tag.next)
        IN  IF ~v.ok THEN DecodeError
            ELSE LET merged == MergeField(kind, msg, field, wire_type, v.value)
                 IN  IF ~merged.ok THEN DecodeError
                     ELSE DecodeMessage(kind, bytes, v.next, merged.value)
    ELSE IF wire_type = 2 THEN
        LET len == ReadVarint(bytes, tag.next)
        IN  IF ~len.ok THEN DecodeError
            ELSE IF len.next + len.value - 1 > Len(bytes) THEN DecodeError
            ELSE LET payload == SubSeq(bytes, len.next, len.next + len.value - 1)
                     merged == MergeField(kind, msg, field, wire_type, payload)
                 IN  IF ~merged.ok THEN DecodeError
                     ELSE DecodeMessage(kind, bytes, len.next + len.value, merged.value)
    ELSE DecodeError

DecodeDictionary(bytes) == DecodeMessage("dictionary", bytes, 1, NoDictionary)

(***************************************************************************)
(* The store header file (src/clone.rs, src/mount.rs).                     *)
(***************************************************************************)
\* STORE_MAGIC, b"IHOP1\0"
STORE_MAGIC == <<73, 72, 79, 80, 49, 0>>

\* Blake2b: a digest of 64 bytes.
Blake2b(bytes) == LeBytes(DigestNumber(bytes), 64)

\* build_store_header with the digest taken over the dictionary bytes
\* alone.
BuildStoreHeaderDigestOfDictionary(d) ==
    LET dictionary_buf == EncodeDictionary(d)
    IN  STORE_MAGIC \o LeBytes(Len(dictionary_buf), 8) \o dictionary_buf
            \o Blake2b(dictionary_buf)

\* build_store_header: magic, the dictionary's length as 8 little-endian
\* bytes, the dictionary, the digest of all that.
build_store_header(d) ==
    LET dictionary_buf == EncodeDictionary(d)
        header == STORE_MAGIC \o LeBytes(Len(dictionary_buf), 8) \o dictionary_buf
    IN  header \o Blake2b(header)

\* u64::from_le_bytes, saturating at 2^24 (a length no file of the model
\* has).
RECURSIVE FromLeBytes(_)
FromLeBytes(bytes) ==
    IF bytes = <<>> THEN 0
    ELSE LET high == FromLeBytes(Tail(bytes))
         IN  IF high >= 2 ^ 16 THEN 2 ^ 24 ELSE Head(bytes) + 256 * high

MountPanic(why) == [status |-> "panic", why |-> why]

\* mount with the comparison of the two digests left out.
MountWithoutDigestCheck(file) ==
    IF ~file.exists THEN MountPanic("open")
    ELSE LET bytes == file.bytes
    IN
    IF Len(bytes) < 6 THEN MountPanic("read")
    ELSE IF SubSeq(bytes, 1, 6) # STORE_MAGIC THEN [status |-> "file"]
    ELSE IF Len(bytes) < 6 + 8 THEN MountPanic("read dictionary size")
    ELSE
    LET dict_size_buf == SubSeq(bytes, 7, 14)
        dict_size == FromLeBytes(dict_size_buf)
    IN
    IF Len(bytes) < 14 + dict_size THEN MountPanic("read dictionary")
    ELSE IF Len(bytes) < 14 + dict_size + 64 THEN MountPanic("read checksum")
    ELSE
    LET dict_buf == SubSeq(bytes, 15, 14 + dict_size)
        expected_checksum == SubSeq(bytes, 15 + dict_size, 14 + dict_size + 64)
        checksum == Blake2b(STORE_MAGIC \o dict_size_buf \o dict_buf)
        decoded == DecodeDictionary(dict_buf)
    IN  IF ~decoded.ok THEN MountPanic("decode dictionary")
        ELSE [status |-> "ihop", dictionary |-> decoded.value]

\* mount and mount_ihop up to the making of the device: what becomes of a
\* backend file.
Mount(file) ==
    IF ~file.exists THEN MountPanic("open")
    ELSE LET bytes == file.bytes
    IN
    IF Len(bytes) < 6 THEN MountPanic("read")
    ELSE IF SubSeq(bytes, 1, 6) # STORE_MAGIC THEN [status |-> "file"]
    ELSE IF Len(bytes) < 6 + 8 THEN MountPanic("read dictionary size")
    ELSE
    LET dict_size_buf == SubSeq(bytes, 7, 14)
        dict_size == FromLeBytes(dict_size_buf)
    IN
    IF Len(bytes) < 14 + dict_size THEN MountPanic("read dictionary")
    ELSE IF Len(bytes) < 14 + dict_size + 64 THEN MountPanic("read checksum")
    ELSE
    LET dict_buf == SubSeq(bytes, 15, 14 + dict_size)
        expected_checksum == SubSeq(bytes, 15 + dict_size, 14 + dict_size + 64)
        checksum == Blake2b(STORE_MAGIC \o dict_size_buf \o dict_buf)
    IN
    IF checksum # expected_checksum THEN MountPanic("header checksum mismatch")
    ELSE LET decoded == DecodeDictionary(dict_buf)
         IN  IF ~decoded.ok THEN MountPanic("decode dictionary")
             ELSE [status |-> "ihop", dictionary |-> decoded.value]

\* Any store dictionary: those of Dictionaries, and the same with a total
\* size that takes two and three bytes as a varint.
InitHeader ==
    /\ MapIdle
    /\ FileIdle
    /\ SrvIdle
    /\ HdrIdle
    /\ CloneIdle
    /\ StoreIdle
    /\ \E d \in Dictionaries, total \in {0, 200, 20000} :
          dictionary = [d EXCEPT !.source_total_size = @ + total]
    /\ device = [state |-> "none", chunk_location_map |-> <<>>]
    /\ rd = [status |-> "none"]

\* clone_with_reader, lines 228-232: the header of the dictionary is
\* written to the output file.
WriteHeader ==
    /\ ~output.exists
    /\ mnt.status = "none"
    /\ output' = [exists |-> TRUE, bytes |-> build_store_header(dictionary)]
    /\ UNCHANGED <<fileVars, srvVars, mapVars, devVars, store, mnt, cloneVars>>

\* mount on the output file.
MountHeader ==
    /\ mnt.status = "none"
    /\ mnt' = Mount(output)
    /\ UNCHANGED <<fileVars, srvVars, mapVars, devVars, store, output, cloneVars>>

\* The mount has ended: by a panic, or with the device torn down.
MountEnded ==
    /\ mnt.status # "none"
    /\ mnt' = [status |-> "none"]
    /\ UNCHANGED <<fileVars, srvVars, mapVars, devVars, store, output, cloneVars>>

NextHeader == WriteHeader \/ MountHeader \/ MountEnded

SpecHeader == InitHeader /\ [][NextHeader]_vars

(***************************************************************************)
(* A header file changed on disk between ingestion and mount.              *)
(***************************************************************************)
\* The amounts, modulo 256, by which a byte of the file is changed.
TamperDeltas ==
    {1, 2, 4, 8, 16, 32, 64, 128} \cup {256 - x : x \in {1, 2, 4, 8, 16, 32, 64}}

InitTamper ==
    /\ MapIdle
    /\ FileIdle
    /\ SrvIdle
    /\ HdrIdle
    /\ CloneIdle
    /\ StoreIdle
    /\ dictionary \in {StoreDictionaryOf(sizes, <<0, 1, 0>>) :
                            sizes \in [ChunkIds -> 1..MaxCloneChunk]}
    /\ device = [state |-> "none", chunk_location_map |-> <<>>]
    /\ rd = [status |-> "none"]

\* One byte after the magic of the header file written by the ingestion is
\* changed: a byte of the length field, of the dictionary or of the digest.
TamperHeader ==
    /\ output.exists
    /\ mnt.status = "none"
    /\ output.bytes = build_store_header(dictionary)
    /\ \E pos \in (Len(STORE_MAGIC) + 1)..Len(output.bytes), delta \in TamperDeltas :
          output' = [output EXCEPT !.bytes[pos] = (@ + delta) % 256]
    /\ UNCHANGED <<fileVars, srvVars, mapVars, devVars, store, mnt, cloneVars>>

NextTamper == WriteHeader \/ TamperHeader \/ MountHeader \/ MountEnded

SpecTamper == InitTamper /\ [][NextTamper]_vars

(***************************************************************************)
(* The chunk store and archive ingestion (src/clone.rs).                   *)
(***************************************************************************)
\* Writing new at the start of a file that is not truncated: the bytes of
\* old beyond len(new) stay.
Overlay(old, new) == new \o SubSeq(old, Len(new) + 1, Len(old))

\* archive.source_index(): the hashes of the archive's chunks.
SourceIndex(d) ==
    {d.chunk_descriptors[i].checksum : i \in 1..Len(d.chunk_descriptors)}

\* filter_present_chunks without the digest comparison: a present file is
\* always kept out.
FilterPresentChunksTrusting(files, unread, verify, chunks) ==
    {hash \in chunks : ChunkPath(hash) \notin DOMAIN files}

\* ChunkStore::filter_present_chunks: the chunks to fetch. A chunk whose
\* file cannot be opened is fetched; with verify, so is one whose file was
\* read to the end and does not hash to the chunk's hash; a read that fails
\* yields false, and the chunk is not fetched.
filter_present_chunks(files, unread, verify, chunks) ==
    {hash \in chunks :
        LET chunk_path == ChunkPath(hash)
        IN  IF chunk_path \in DOMAIN files
            THEN verify /\ (IF chunk_path \in unread THEN FALSE
                            ELSE B2Digest(files[chunk_path], Len(hash)) # hash)
            ELSE TRUE}

\* ChunkStore::write_chunk, when it succeeds: the file is opened with
\* write(true).create(true), without truncate, and buf is written at its
\* start.
write_chunk(files, hash, buf) ==
    [p \in DOMAIN files \cup {ChunkPath(hash)} |->
        IF p = ChunkPath(hash)
        THEN IF p \in DOMAIN files THEN Overlay(files[p], buf) ELSE buf
        ELSE files[p]]

\* The bytes the archive holds for the chunk of a hash.
ArchiveChunk(d, hash) ==
    LET id == CHOOSE id \in ChunkIds : d.chunk_descriptors[id + 1].checksum = hash
    IN  ChunkBytes(id, d.chunk_descriptors[id + 1].source_size)

\* The chunk clone_from_archive fetches next: the first of chunks_left in
\* the archive's order.
NextChunk(d, chunks_left) ==
    LET id == CHOOSE id \in ChunkIds :
                /\ d.chunk_descriptors[id + 1].checksum \in chunks_left
                /\ \A other \in ChunkIds :
                      d.chunk_descriptors[other + 1].checksum \in chunks_left
                          => id <= other
    IN  d.chunk_descriptors[id + 1].checksum

\* What a chunk file may hold before an ingestion: the chunk, a truncation
\* of it, the chunk with one byte changed, the chunk with a byte after it.
Flipped == 99
FileContents(content) ==
    {SubSeq(content, 1, n) : n \in 0..Len(content)}
    \cup {[content EXCEPT ![i] = Flipped] : i \in 1..Len(content)}
    \cup {content \o <<Flipped>>}

\* The archives ingested: two chunks of one to MaxCloneChunk bytes, laid out
\* A B A.
Archives ==
    {StoreDictionaryOf(sizes, <<0, 1, 0>>) :
        sizes \in [ChunkIds -> 1..MaxCloneChunk]}

\* Any store: each chunk file absent, or present with any of FileContents,
\* or present and failing reads; the output file absent or holding
\* earlier bytes.
InitClone ==
    /\ MapIdle
    /\ FileIdle
    /\ SrvIdle
    /\ dictionary \in Archives
    /\ device = [state |-> "none", chunk_location_map |-> <<>>]
    /\ rd = [status |-> "none"]
    /\ mnt = [status |-> "none"]
    /\ \E present \in SUBSET SourceIndex(dictionary) :
          /\ store \in [{ChunkPath(h) : h \in present} ->
                            UNION {FileContents(ArchiveChunk(dictionary, h)) :
                                        h \in present}]
          /\ \A h \in present :
                store[ChunkPath(h)] \in FileContents(ArchiveChunk(dictionary, h))
          /\ \E bad \in SUBSET present :
                /\ unreadable = {ChunkPath(h) : h \in bad}
                /\ \A h \in bad : store[ChunkPath(h)] = ArchiveChunk(dictionary, h)
    /\ output \in {[exists |-> FALSE, bytes |-> <<>>],
                   [exists |-> TRUE, bytes |-> <<>>],
                   [exists |-> TRUE, bytes |-> <<Flipped, Flipped, Flipped>>]}
    /\ cl = CloneIdlePc
    /\ prev = [verified_done |-> FALSE, header |-> <<>>]

ClonePanic(why) == [cl EXCEPT !.pc = "panicked", !.why = why]

\* clone, lines 244-250: a new invocation opens the output file, with
\* create(force_create) and create_new(!force_create), never truncating.
CloneOpen ==
    \E force_create \in BOOLEAN, verify_present \in BOOLEAN :
        /\ cl.pc \in {"idle", "done", "panicked"}
        /\ prev' = IF cl.pc = "done" /\ cl.verify
                   THEN [verified_done |-> TRUE,
                         header |-> SubSeq(output.bytes, 1, cl.header_written)]
                   ELSE [verified_done |-> FALSE, header |-> <<>>]
        /\ IF ~force_create /\ output.exists
           THEN /\ cl' = [CloneIdlePc EXCEPT !.pc = "panicked",
                                             !.why = "open output file",
                                             !.verify = verify_present,
                                             !.force = force_create]
                /\ UNCHANGED output
           ELSE /\ cl' = [CloneIdlePc EXCEPT !.pc = "opened",
                                             !.verify = verify_present,
                                             !.force = force_create]
                /\ output' = [output EXCEPT !.exists = TRUE]
        /\ UNCHANGED <<fileVars, srvVars, mapVars, devVars, store, mnt, unreadable>>

\* clone_with_reader, lines 196-198: the archive's manifest is read and
\* decoded, or the run panics.
CloneInitArchive ==
    \E ok \in BOOLEAN :
        /\ cl.pc = "opened"
        /\ cl' = IF ok THEN [cl EXCEPT !.pc = "inited"] ELSE ClonePanic("init archive")
        /\ UNCHANGED <<fileVars, srvVars, mapVars, devVars, store, hdrVars, unreadable, prev>>

\* clone_with_reader, lines 199-208: the fetch set is computed.
CloneFilter ==
    /\ cl.pc = "inited"
    /\ LET chunks_left == filter_present_chunks(store, unreadable, cl.verify,
                                                SourceIndex(dictionary))
       IN  cl' = [cl EXCEPT !.pc = "filtered", !.fetch_set = chunks_left,
                            !.chunks_left = chunks_left]
    /\ UNCHANGED <<fileVars, srvVars, mapVars, devVars, store, hdrVars, unreadable, prev>>

\* clone_from_archive, one chunk: it is retrieved from the archive and
\* handed to write_chunk. The transfer fails, or write_chunk returns an
\* error, or its write_all fails after some bytes, or the chunk is written.
CloneFetch ==
    /\ cl.pc \in {"filtered", "fetching"}
    /\ cl.chunks_left # {}
    /\ LET hash == NextChunk(dictionary, cl.chunks_left)
           buf == ArchiveChunk(dictionary, hash)
       IN  \/ /\ cl' = ClonePanic("clone from archive: transfer")
              /\ UNCHANGED store
           \/ /\ cl' = ClonePanic("clone from archive: write_chunk")
              /\ UNCHANGED store
           \/ \E k \in 0..(Len(buf) - 1) :
                /\ cl' = ClonePanic("write chunk file")
                /\ store' = write_chunk(store, hash, SubSeq(buf, 1, k))
           \/ /\ cl' = [cl EXCEPT !.pc = "fetching",
                                  !.chunks_left = @ \ {hash},
                                  !.transferred = @ + 1,
                                  !.written = Append(@, hash)]
              /\ store' = write_chunk(store, hash, buf)
    /\ UNCHANGED <<fileVars, srvVars, mapVars, devVars, hdrVars, unreadable, prev>>

\* The lengths a failed write_all of n bytes may have written.
PartialLengths(n) == {0, n \div 2, n - 1}

\* The header written as soon as the fetch set is known.
CloneWriteHeaderBeforeFetch ==
    /\ cl.pc \in {"filtered", "fetching"}
    /\ LET header_buf == build_store_header(dictionary)
       IN  /\ cl' = [cl EXCEPT !.pc = "done", !.header_written = Len(header_buf)]
           /\ output' = [output EXCEPT !.bytes = Overlay(@, header_buf)]
    /\ UNCHANGED <<fileVars, srvVars, mapVars, devVars, store, mnt, unreadable, prev>>

\* clone_with_reader, lines 227-232: clone_from_archive has returned Ok;
\* the header is built and written to the output file, from its start.
CloneWriteHeader ==
    /\ cl.pc \in {"filtered", "fetching"}
    /\ cl.chunks_left = {}
    /\ LET header_buf == build_store_header(dictionary)
       IN  \/ /\ cl' = [cl EXCEPT !.pc = "done", !.header_written = Len(header_buf)]
              /\ output' = [output EXCEPT !.bytes = Overlay(@, header_buf)]
           \/ \E k \in PartialLengths(Len(header_buf)) :
                /\ cl' = [ClonePanic("write output file") EXCEPT !.header_written = k]
                /\ output' = [output EXCEPT
                                !.bytes = Overlay(@, SubSeq(header_buf, 1, k))]
    /\ UNCHANGED <<fileVars, srvVars, mapVars, devVars, store, mnt, unreadable, prev>>

NextClone ==
    CloneOpen \/ CloneInitArchive \/ CloneFilter \/ CloneFetch \/ CloneWriteHeader

SpecClone == InitClone /\ [][NextClone]_vars

(***************************************************************************)
(* The block-device protocol server (src/nbd/device.rs). The records of    *)
(* the wire and the control calls are those of the nbd module, whose       *)
(* mod.rs is not among the sources: a request is modelled as its five      *)
(* fields, a reply as its three fields and its payload, one cell of the    *)
(* wire for each field and each payload byte, with the kernel's numbers.   *)
(***************************************************************************)
MAX_BATCH_REQUESTS == 4

\* nbd::SIZE_OF_REQUEST and nbd::SIZE_OF_REPLY, in cells.
SIZE_OF_REQUEST == 5
SIZE_OF_REPLY == 3

REQUEST_MAGIC == 627086611
REPLY_MAGIC == 1732535960

CmdRead == 0
CmdWrite == 1
CmdDisc == 2
CmdFlush == 3
CmdTrim == 4
CmdWriteZeroes == 6

Commands == {CmdRead, CmdWrite, CmdDisc, CmdFlush, CmdTrim, CmdWriteZeroes}

\* The commands new_device answers with unimplemented!().
Unimplemented == {CmdWrite, CmdDisc, CmdTrim, CmdWriteZeroes}

EIO == 5
ENOSPC == 28

\* The requests the kernel has sent at most, over the life of a device.
MaxSent == 5
MaxSentFair == 2

\* The request the kernel sends with a handle: handles are unique, the
\* offset and the length vary with the handle.
KernelRequest(handle, command) ==
    [command |-> command, handle |-> handle, from |-> handle - 1,
     len |-> handle % 3]

\* A request as the kernel puts it on the wire.
RequestBytes(r) == <<REQUEST_MAGIC, r.command, r.handle, r.from, r.len>>

\* nbd::Request::try_from_bytes: the record of a slice of SIZE_OF_REQUEST
\* cells, or an error when the magic or the command is not one.
TryFromBytes(bytes) ==
    IF bytes[1] # REQUEST_MAGIC \/ bytes[2] \notin Commands
    THEN [ok |-> FALSE]
    ELSE [ok |-> TRUE,
          request |-> [command |-> bytes[2], handle |-> bytes[3],
                       from |-> bytes[4], len |-> bytes[5]]]

\* nbd::Reply::from_request, write_to_slice, append_to_vec: the reply's
\* three fields.
ReplyBytesWithoutHandle(error, handle) == <<REPLY_MAGIC, error, 0>>

ReplyBytes(error, handle) == <<REPLY_MAGIC, error, handle>>

Zeros(n) == [i \in 1..n |-> 0]

\* What block_device.read leaves in the payload on success.
DeviceData(from, len) == [i \in 1..len |-> 200 + from + i - 1]

\* The slots of read_buf that read_next decodes after a receive of n
\* cells: (0..n).step_by(SIZE_OF_REQUEST).
DecodedSlots(n) == (n + SIZE_OF_REQUEST - 1) \div SIZE_OF_REQUEST

\* RequestStream::read_next after poll_read has put n cells at the start of
\* read_buf: requests is cleared, and each slot is decoded in turn until
\* one fails.
RECURSIVE DecodeSlots(_, _, _, _)
DecodeSlots(read_buf, slot, slots, requests) ==
    IF slot > slots THEN [ok |-> TRUE, requests |-> requests]
    ELSE LET offs == (slot - 1) * SIZE_OF_REQUEST
             request == TryFromBytes(SubSeq(read_buf, offs + 1, offs + SIZE_OF_REQUEST))
         IN  IF request.ok
             THEN DecodeSlots(read_buf, slot + 1, slots, Append(requests, request.request))
             ELSE [ok |-> FALSE, requests |-> requests]

\* read_next stopping one slot early.
ReadNextSkipsLast(read_buf, n) == DecodeSlots(read_buf, 1, DecodedSlots(n) - 1, <<>>)

ReadNext(read_buf, n) == DecodeSlots(read_buf, 1, DecodedSlots(n), <<>>)

\* The control calls new_device issues before it spawns the worker, in the
\* order of lines 45 to 48.
Negotiation == <<"set_block_size", "set_size_blocks", "set_timeout", "clear_sock">>

\* A control call issued on the device node, by the thread that issued it.
Call(by, call) == [by |-> by, call |-> call]

InitSrv ==
    /\ MapIdle /\ DevIdle /\ StoreIdle /\ HdrIdle /\ CloneIdle /\ FileIdle
    /\ srv = [pc |-> "open", step |-> 1, read_buf |-> <<>>, n |-> 0,
              requests |-> <<>>, next |-> 1, reply_buf |-> <<>>,
              read_result |-> "none", result |-> "none", why |-> ""]
    /\ worker = [state |-> "none", result |-> "none"]
    /\ wire = [to_server |-> <<>>, written |-> <<>>, sent |-> 0,
               sent_unimplemented |-> FALSE, peer_closed |-> FALSE, server_end |-> "none"]
    /\ calls = <<>>

\* new_device returns before a RequestStream exists: nothing is dropped.
Returned(result, why) ==
    [srv EXCEPT !.pc = "returned", !.result = result, !.why = why]

\* new_device leaves its loop, or unwinds: the RequestStream is dropped, and
\* its Drop issues disconnect (line 117), closes the server's end of the
\* pair (line 118), and then waits in join for the worker (line 120).
\* The buffers are not read again: they are left out of the state from here.
Teardown(result, why) ==
    [srv EXCEPT !.pc = "join", !.result = result, !.why = why,
                !.read_buf = <<>>, !.n = 0, !.requests = <<>>, !.next = 1,
                !.reply_buf = <<>>, !.read_result = "none"]

Disconnected == Append(calls, Call("main", "disconnect"))

\* Drop leaving the socket open.
NotReleased(w) == w

Released(w) == [w EXCEPT !.server_end = "released", !.to_server = <<>>]

\* new_device, lines 37-43: the device node is opened and the socket pair
\* made, or new_device returns the error.
SrvOpen ==
    /\ srv.pc = "open"
    /\ \E ok \in BOOLEAN :
          IF ok
          THEN /\ srv' = [srv EXCEPT !.pc = "negotiate"]
               /\ wire' = [wire EXCEPT !.server_end = "open"]
          ELSE /\ srv' = Returned("err", "open")
               /\ UNCHANGED wire
    /\ UNCHANGED <<mapVars, devVars, store, hdrVars, cloneVars, fileVars, worker, calls>>

\* new_device, lines 45-48: the next of the four control calls; a failure
\* is returned with ?.
SrvNegotiate ==
    /\ srv.pc = "negotiate"
    /\ \E ok \in BOOLEAN :
          /\ calls' = Append(calls, Call("main", Negotiation[srv.step]))
          /\ srv' = IF ~ok THEN Returned("err", Negotiation[srv.step])
                    ELSE IF srv.step = Len(Negotiation)
                         THEN [srv EXCEPT !.pc = "spawn"]
                         ELSE [srv EXCEPT !.step = @ + 1]
    /\ UNCHANGED <<mapVars, devVars, store, hdrVars, cloneVars, fileVars, worker, wire>>

\* The worker spawned whether or not the file could be cloned, and before
\* the last control call.
SrvSpawnEarly ==
    /\ srv.pc = "negotiate"
    /\ srv.step = Len(Negotiation)
    /\ srv' = [srv EXCEPT !.pc = "recv",
                  !.read_buf = Zeros(SIZE_OF_REQUEST * MAX_BATCH_REQUESTS)]
    /\ worker' = [worker EXCEPT !.state = "set_sock"]
    /\ UNCHANGED <<mapVars, devVars, store, hdrVars, cloneVars, fileVars, wire, calls>>

\* new_device, lines 50-71: the file is cloned, the worker thread spawned
\* and the RequestStream made, its read_buf zeroed.
SrvSpawn ==
    /\ srv.pc = "spawn"
    /\ \E ok \in BOOLEAN :
          IF ok
          THEN /\ srv' = [srv EXCEPT !.pc = "recv",
                            !.read_buf = Zeros(SIZE_OF_REQUEST * MAX_BATCH_REQUESTS)]
               /\ worker' = [worker EXCEPT !.state = "set_sock"]
          ELSE /\ srv' = Returned("err", "try_clone")
               /\ UNCHANGED worker
    /\ UNCHANGED <<mapVars, devVars, store, hdrVars, cloneVars, fileVars, wire, calls>>

\* The worker's closure ends: its result is kept for join, and kernel_sock
\* is dropped.
WorkerEnded(result) == [state |-> "ended", result |-> result]

\* Worker, line 52: set_sock; a failure ends the thread with the error.
WorkerSetSock ==
    /\ worker.state = "set_sock"
    /\ \E ok \in BOOLEAN :
          /\ calls' = Append(calls, Call("worker", "set_sock"))
          /\ IF ok
             THEN worker' = [worker EXCEPT !.state = "set_flags"] /\ UNCHANGED wire
             ELSE /\ worker' = WorkerEnded("err")
                  /\ wire' = [wire EXCEPT !.peer_closed = TRUE]
    /\ UNCHANGED <<mapVars, devVars, store, hdrVars, cloneVars, fileVars, srv>>

\* Worker, line 53: set_flags, its result dropped.
WorkerSetFlags ==
    /\ worker.state = "set_flags"
    /\ calls' = Append(calls, Call("worker", "set_flags"))
    /\ worker' = [worker EXCEPT !.state = "call_do_it"]
    /\ UNCHANGED <<mapVars, devVars, store, hdrVars, cloneVars, fileVars, srv, wire>>

\* Worker, line 57: do_it is issued and blocks.
WorkerDoIt ==
    /\ worker.state = "call_do_it"
    /\ calls' = Append(calls, Call("worker", "do_it"))
    /\ worker' = [worker EXCEPT !.state = "do_it"]
    /\ UNCHANGED <<mapVars, devVars, store, hdrVars, cloneVars, fileVars, srv, wire>>

\* do_it returns, after a disconnect or when the kernel gives the device
\* up. An error ends the thread with ?; otherwise clear_sock and
\* clear_queue are issued, their results dropped, and the thread ends with
\* Ok(()) (lines 57-62). kernel_sock is dropped with the closure.
WorkerDoItReturns ==
    /\ worker.state = "do_it"
    /\ \E ok \in BOOLEAN :
          IF ok
          THEN /\ worker' = WorkerEnded("ok")
               /\ calls' = calls \o <<Call("worker", "clear_sock"),
                                       Call("worker", "clear_queue")>>
          ELSE /\ worker' = WorkerEnded("err")
               /\ UNCHANGED calls
    /\ wire' = [wire EXCEPT !.peer_closed = TRUE]
    /\ UNCHANGED <<mapVars, devVars, store, hdrVars, cloneVars, fileVars, srv>>

\* The kernel, the device active and the server in its loop, sends one more
\* request. It sends nothing after a request of a command the server does
\* not implement: the server gets no further than that request.
KernelSendUpTo(max) ==
    /\ worker.state = "do_it"
    /\ srv.pc \in {"recv", "process", "write"}
    /\ wire.sent < max
    /\ ~wire.sent_unimplemented
    /\ \E command \in Commands :
          wire' = [wire EXCEPT
                      !.to_server = @ \o RequestBytes(KernelRequest(wire.sent + 1, command)),
                      !.sent = @ + 1,
                      !.sent_unimplemented = command \in Unimplemented]
    /\ UNCHANGED <<mapVars, devVars, store, hdrVars, cloneVars, fileVars, srv, worker, calls>>

KernelSend == KernelSendUpTo(MaxSent)

\* The same, in the runs checked for termination.
KernelSendFew == KernelSendUpTo(MaxSentFair)

\* stream.next(), the whole of read_next: the receive puts n cells at the
\* start of read_buf, leaving the rest of it as it was, and the slots are
\* decoded; or it returns zero bytes, the peer having closed; or it fails.
\* A decode error and a receive error are returned, None ends the loop.
SrvReceive ==
    /\ srv.pc = "recv"
    /\ \/ \E n \in 1..Min(Len(wire.to_server), SIZE_OF_REQUEST * MAX_BATCH_REQUESTS) :
            LET received == SubSeq(wire.to_server, 1, n)
                read_buf == received \o SubSeq(srv.read_buf, n + 1, Len(srv.read_buf))
                decoded == ReadNext(read_buf, n)
            IN  IF decoded.ok
                THEN /\ srv' = [srv EXCEPT !.pc = "process", !.read_buf = read_buf,
                                           !.n = n, !.read_result = "none",
                                           !.requests = decoded.requests, !.next = 1]
                     /\ wire' = [wire EXCEPT !.to_server = SubSeq(@, n + 1, Len(@)),
                                             !.written = <<>>]
                     /\ UNCHANGED calls
                ELSE /\ srv' = [Teardown("err", "decode") EXCEPT !.n = n]
                     /\ wire' = Released(wire)
                     /\ calls' = Disconnected
       \/ /\ wire.to_server = <<>>
          /\ wire.peer_closed
          /\ srv' = Teardown("ok", "peer closed")
          /\ wire' = Released(wire)
          /\ calls' = Disconnected
       \/ /\ srv' = Teardown("err", "receive")
          /\ wire' = Released(wire)
          /\ calls' = Disconnected
    /\ UNCHANGED <<mapVars, devVars, store, hdrVars, cloneVars, fileVars, worker>>

\* What block_device.read may do: succeed, fail with an OS error code, fail
\* with an error that has none.
ReadResults == {"ok", "os error", "other error"}

\* The reply to a Read with the payload after it: error stays 0 when the
\* read succeeds, and is raw_os_error() or else EIO when it fails, the
\* payload then as resize left it.
ReadReplyAlwaysOk(request, read_result) ==
    ReplyBytes(0, request.handle) \o DeviceData(request.from, request.len)

ReadReply(request, read_result) ==
    IF read_result = "ok"
    THEN ReplyBytes(0, request.handle) \o DeviceData(request.from, request.len)
    ELSE ReplyBytes(IF read_result = "os error" THEN ENOSPC ELSE EIO, request.handle)
            \o Zeros(request.len)

\* The match on request.command, lines 85-107, with every command answered
\* as a Flush is.
AnswerEveryCommand(request, read_result) ==
    IF request.command = CmdRead
    THEN [panic |-> FALSE, reply |-> ReadReply(request, read_result)]
    ELSE [panic |-> FALSE, reply |-> ReplyBytes(0, request.handle)]

\* The match on request.command, lines 85-107: what is appended to
\* reply_buf, or the panic of unimplemented!().
Answer(request, read_result) ==
    IF request.command = CmdRead
    THEN [panic |-> FALSE, reply |-> ReadReply(request, read_result)]
    ELSE IF request.command = CmdFlush
    THEN [panic |-> FALSE, reply |-> ReplyBytes(0, request.handle)]
    ELSE [panic |-> TRUE]

\* new_device, lines 82-108, one turn of the for loop: the next request of
\* the batch is answered into reply_buf, or the server panics and the
\* stack is unwound, the stream dropped, or the process aborted.
SrvProcess ==
    /\ srv.pc = "process"
    /\ LET request == srv.requests[srv.next]
       IN  \E read_result \in IF request.command = CmdRead THEN ReadResults ELSE {"none"} :
             LET answer == Answer(request, read_result)
             IN  IF ~answer.panic
                 THEN /\ srv' = [srv EXCEPT
                                   !.reply_buf = @ \o answer.reply,
                                   !.read_result = read_result,
                                   !.next = @ + 1,
                                   !.pc = IF srv.next = Len(srv.requests)
                                          THEN "write" ELSE "process"]
                      /\ UNCHANGED <<wire, calls>>
                 ELSE \/ /\ srv' = Teardown("panic", "not implemented")
                         /\ wire' = Released(wire)
                         /\ calls' = Disconnected
                      \/ /\ srv' = [srv EXCEPT !.pc = "aborted", !.result = "panic",
                                               !.why = "not implemented"]
                         /\ UNCHANGED <<wire, calls>>
    /\ UNCHANGED <<mapVars, devVars, store, hdrVars, cloneVars, fileVars, worker>>

\* new_device, lines 109-110: the replies of the batch are written with one
\* write_all and reply_buf cleared; a failed write_all, some of the bytes
\* written, is returned with ?.
SrvWrite ==
    /\ srv.pc = "write"
    /\ \/ /\ ~wire.peer_closed
          /\ wire' = [wire EXCEPT !.written = srv.reply_buf]
          /\ srv' = [srv EXCEPT !.pc = "recv", !.reply_buf = <<>>]
          /\ UNCHANGED calls
       \/ \E k \in {0, Len(srv.reply_buf) \div 2} :
            /\ wire' = Released([wire EXCEPT !.written = SubSeq(srv.reply_buf, 1, k)])
            /\ srv' = Teardown("err", "write")
            /\ calls' = Disconnected
    /\ UNCHANGED <<mapVars, devVars, store, hdrVars, cloneVars, fileVars, worker>>

\* Drop without the join: new_device returns with the worker running.
TeardownWithoutJoin ==
    /\ srv.pc = "join"
    /\ srv' = [srv EXCEPT !.pc = "returned"]
    /\ UNCHANGED <<mapVars, devVars, store, hdrVars, cloneVars, fileVars, worker, wire, calls>>

\* Drop for RequestStream, lines 119-123: join returns when the worker has
\* ended; what the worker returned is dropped, the stream's buffers are
\* freed, and new_device returns.
TeardownJoin ==
    /\ srv.pc = "join"
    /\ worker.state = "ended"
    /\ worker' = [worker EXCEPT !.state = "joined"]
    /\ srv' = [srv EXCEPT !.pc = "returned"]
    /\ UNCHANGED <<mapVars, devVars, store, hdrVars, cloneVars, fileVars, wire, calls>>

\* do_it, line 57, once the kernel has reason to end it: the server's end
\* of the pair is closed, or disconnect was issued while do_it was active.
\* A disconnect issued before do_it finds no connection to end.
DoItEndedByKernel ==
    /\ \/ wire.server_end = "released"
       \/ \E i \in 1..Len(calls) : \E j \in (i + 1)..Len(calls) :
             calls[i].call = "do_it" /\ calls[j].call = "disconnect"
    /\ WorkerDoItReturns

NextSrv ==
    \/ SrvOpen \/ SrvNegotiate \/ SrvSpawn
    \/ WorkerSetSock \/ WorkerSetFlags \/ WorkerDoIt \/ WorkerDoItReturns
    \/ KernelSend
    \/ SrvReceive \/ SrvProcess \/ SrvWrite \/ TeardownJoin

SpecSrv == InitSrv /\ [][NextSrv]_vars

\* The worker is a thread of its own and the join of Drop a blocking call:
\* each goes on when it can; the kernel ends do_it once it has reason to.
NextSrvFair ==
    \/ SrvOpen \/ SrvNegotiate \/ SrvSpawn
    \/ WorkerSetSock \/ WorkerSetFlags \/ WorkerDoIt \/ WorkerDoItReturns
    \/ KernelSendFew
    \/ SrvReceive \/ SrvProcess \/ SrvWrite \/ TeardownJoin

SpecSrvFair ==
    /\ InitSrv
    /\ [][NextSrvFair]_vars
    /\ WF_vars(WorkerSetSock)
    /\ WF_vars(WorkerSetFlags)
    /\ WF_vars(WorkerDoIt)
    /\ WF_vars(DoItEndedByKernel)
    /\ WF_vars(TeardownJoin)

(***************************************************************************)
(* The plain-file device: mount_file.rs, reached from mount when the       *)
(* backend file does not start with the store's magic.                     *)
(***************************************************************************)
MaxFileLen == 8
MaxBufLen == 3
MaxRc == 2

\* A backend file of a length: the byte at each place names the place.
PlainFile(len) == [exists |-> TRUE, bytes |-> [i \in 1..len |-> 100 + i]]

\* mount_file::mount, line 55.
BlockCount(len, block_size) == (len + block_size - 1) \div block_size

NoRead == [result |-> "none"]

InitFile ==
    /\ MapIdle /\ DevIdle /\ StoreIdle /\ HdrIdle /\ CloneIdle /\ SrvIdle
    /\ fdev = [state |-> "none"]

\* mount, mount.rs lines 146-162: the backend file is opened and its first
\* six bytes are read with read_exact; when they are not the magic the
\* same handle, now at position 6, goes to mount_file::mount, which takes
\* the length from the metadata and makes the device with
\* current_file_offs = 0 (FileBackedDevice::new).
FileMount ==
    /\ fdev.state = "none"
    /\ \E len \in 0..MaxFileLen, block_size \in 1..MaxBlockSize :
          LET file == PlainFile(len)
              m == Mount(file)
          IN  fdev' = IF m.status = "file"
                      THEN [state |-> "mounted", bytes |-> file.bytes,
                            pos |-> Len(STORE_MAGIC), current_file_offs |-> 0,
                            block_size |-> block_size,
                            block_count |-> BlockCount(len, block_size),
                            last |-> NoRead]
                      ELSE [state |-> "panic", why |-> m.why]
    /\ UNCHANGED <<mapVars, devVars, store, hdrVars, cloneVars, srvVars>>

\* FileBackedDevice::read, lines 33-41: file.read is called until the
\* buffer is full or it returns 0; each call returns at most MaxRc bytes
\* from the handle's position and moves the position; ok_reads calls
\* succeed and the next one fails.
RECURSIVE FileReadLoop(_, _, _, _, _, _)
FileReadLoop(bytes, pos, current_file_offs, want, data, ok_reads) ==
    IF Len(data) >= want
    THEN [ok |-> TRUE, pos |-> pos, current_file_offs |-> current_file_offs, data |-> data]
    ELSE IF ok_reads = 0
    THEN [ok |-> FALSE, pos |-> pos, current_file_offs |-> current_file_offs, data |-> data]
    ELSE LET left == IF pos < Len(bytes) THEN Len(bytes) - pos ELSE 0
             rc == Min(MaxRc, Min(want - Len(data), left))
         IN  IF rc = 0
             THEN [ok |-> TRUE, pos |-> pos, current_file_offs |-> current_file_offs,
                   data |-> data]
             ELSE FileReadLoop(bytes, pos + rc, current_file_offs + rc, want,
                               data \o SubSeq(bytes, pos + 1, pos + rc), ok_reads - 1)

\* FileBackedDevice::read, lines 28-46, on a buffer of len bytes.
FileBackedDeviceRead(dev, offset, len, seek_ok, ok_reads) ==
    IF offset # dev.current_file_offs /\ ~seek_ok
    THEN [dev EXCEPT !.last = [result |-> "err", failed |-> "seek", offset |-> offset,
                               len |-> len, buf |-> <<>>]]
    ELSE LET sought == IF offset # dev.current_file_offs THEN offset ELSE dev.pos
             r == FileReadLoop(dev.bytes, sought, offset, len, <<>>, ok_reads)
         IN  [dev EXCEPT !.pos = r.pos,
                         !.current_file_offs = r.current_file_offs,
                         !.last = IF r.ok
                                  THEN [result |-> "ok", failed |-> "none", offset |-> offset,
                                        len |-> len,
                                        buf |-> r.data \o [i \in 1..(len - Len(r.data)) |-> 0]]
                                  ELSE [result |-> "err", failed |-> "read", offset |-> offset,
                                        len |-> len, buf |-> <<>>]]

\* A read of the device: any offset up to past the end of the file, any
\* length from 1, the seek and each read of the file failing or not.
FileRead ==
    /\ fdev.state = "mounted"
    /\ \E offset \in 0..(MaxFileLen + 1), len \in 1..MaxBufLen, seek_ok \in BOOLEAN,
          ok_reads \in 0..(MaxBufLen + 1) :
          fdev' = FileBackedDeviceRead(fdev, offset, len, seek_ok, ok_reads)
    /\ UNCHANGED <<mapVars, devVars, store, hdrVars, cloneVars, srvVars>>

NextFile == FileMount \/ FileRead

SpecFile == InitFile /\ [][NextFile]_vars

(***************************************************************************)
(* The offset interval index: claims C3 and C4.                            *)
(***************************************************************************)
NoRepeats(s) == \A i, j \in 1..Len(s) : s[i] = s[j] => i = j

\* True range overlap of a stored interval I and a query q.
Overlaps(I, q) == I.offset < End(q) /\ q.offset < End(I)

PairwiseNonOverlapping(m) ==
    \A i, j \in 1..Len(m) : i # j => ~Overlaps(Key(m[i]), Key(m[j]))

OverlappingEntries(m, q) == {e \in SeqRange(m) : Overlaps(Key(e), q)}

\* C3: when the stored intervals are pairwise non-overlapping,
\* iter_overlapping(q) yields exactly the stored entries I with
\* I.offset < q.end and q.offset < I.end, each once, for every query q
\* (inside one interval, spanning several, touching a boundary, of size 0).
C3_ExactOnNonOverlapping ==
    (query # NoQuery /\ PairwiseNonOverlapping(btm)) =>
        /\ SeqRange(found) = OverlappingEntries(btm, query)
        /\ NoRepeats(found)

\* C3's case: a query that starts inside one stored interval and ends
\* inside the next one, and is answered with both.
C3_Witness ==
    /\ query # NoQuery
    /\ Len(btm) = 2
    /\ PairwiseNonOverlapping(btm)
    /\ btm[1].offset < query.offset
    /\ query.offset < End(btm[1])
    /\ btm[2].offset < End(query)
    /\ End(query) < End(btm[2])
    /\ Len(found) = 2

\* C4: for any sequence of inserts (overlapping, nested and empty
\* intervals included) iter_overlapping(q) yields every stored entry I
\* with I.offset < q.end and q.offset < I.end.
C4_EveryOverlappingReturned ==
    query # NoQuery => OverlappingEntries(btm, query) \subseteq SeqRange(found)

(***************************************************************************)
(* The chunked device: claims C1 and C2.                                   *)
(***************************************************************************)
\* The source: the chunks' bytes concatenated along source_order, a chunk
\* that is named again contributing its bytes again.
RECURSIVE SourceBytes(_, _)
SourceBytes(descriptors, order) ==
    IF order = <<>> THEN <<>>
    ELSE ChunkBytes(Head(order), descriptors[Head(order) + 1].source_size)
            \o SourceBytes(descriptors, Tail(order))

PositiveSizes(d) ==
    \A i \in 1..Len(d.chunk_descriptors) : d.chunk_descriptors[i].source_size > 0

\* The end of the address range the index covers.
CoveredEnd == SumSizes(dictionary.chunk_descriptors, dictionary.source_order)

\* C1: on a device made from a header of positive chunk sizes, a read that
\* ends at or before the sum of the sizes along source_order succeeds and
\* fills the buffer with bytes [offset, offset + len) of the concatenation
\* of the chunks in source_order.
C1_ReadReturnsSourceBytes ==
    (/\ device.state = "built"
     /\ rd.status # "none"
     /\ PositiveSizes(dictionary)
     /\ rd.offset + rd.len <= CoveredEnd) =>
        /\ rd.status = "ok"
        /\ rd.buf = SubSeq(SourceBytes(dictionary.chunk_descriptors,
                                       dictionary.source_order),
                           rd.offset + 1, rd.offset + rd.len)

\* C1's case, the spec's scenario at half scale: chunks A of size 2 and B of
\* size 3 laid out A B A; read(1, 3) returns the last byte of A followed by
\* the first two of B.
C1_Witness ==
    /\ device.state = "built"
    /\ dictionary.source_order = <<0, 1, 0>>
    /\ dictionary.chunk_descriptors[1].source_size = 2
    /\ dictionary.chunk_descriptors[2].source_size = 3
    /\ rd.status = "ok"
    /\ rd.offset = 1
    /\ rd.len = 3
    /\ rd.buf = <<ChunkBytes(0, 2)[2], ChunkBytes(1, 3)[1], ChunkBytes(1, 3)[2]>>

\* C2: on a device of positive chunk sizes, a read of at least one byte
\* whose range extends past the end of the range the index covers, or
\* starts beyond it, fails; it does not return success with a byte of the
\* buffer not filled from a chunk.
C2_ReadPastCoveredRangeFails ==
    (/\ device.state = "built"
     /\ PositiveSizes(dictionary)
     /\ dictionary.source_order # <<>>
     /\ rd.status # "none"
     /\ rd.len > 0
     /\ rd.offset + rd.len > CoveredEnd) =>
        /\ rd.status # "ok"
        /\ ~(rd.status = "ok" /\ \E i \in 1..rd.len : rd.buf[i] = Stale)

(***************************************************************************)
(* The store header: claim C10.                                            *)
(***************************************************************************)
\* C10: the file build_store_header(d) produces is recognised by mount as
\* a store header, passes the digest check and decodes to a dictionary with
\* the chunk descriptor list, source order, source checksum and source
\* total size of d.
C10_HeaderRoundTrip ==
    (output.exists /\ mnt.status # "none") =>
        /\ mnt.status = "ihop"
        /\ mnt.dictionary.chunk_descriptors = dictionary.chunk_descriptors
        /\ mnt.dictionary.source_order = dictionary.source_order
        /\ mnt.dictionary.source_checksum = dictionary.source_checksum
        /\ mnt.dictionary.source_total_size = dictionary.source_total_size

\* C10's case: a header with an empty chunk, a repeated chunk and a total
\* size of two varint bytes has been written and mounted.
C10_Witness ==
    /\ output.exists
    /\ mnt.status = "ihop"
    /\ dictionary.source_order = <<0, 1, 0>>
    /\ dictionary.chunk_descriptors[1].source_size = 0
    /\ dictionary.source_total_size >= 200
    /\ mnt.dictionary.source_order = <<0, 1, 0>>

(***************************************************************************)
(* The chunk store and ingestion: claims C5 to C9.                         *)
(***************************************************************************)
FileOf(hash) == store[ChunkPath(hash)]

Present(hash) == ChunkPath(hash) \in DOMAIN store

HashesToItsHash(hash) == B2Digest(FileOf(hash), Len(hash)) = hash

\* C5: the fetch set filter_present_chunks returns holds every chunk whose
\* file is absent, no chunk whose file holds content hashing to the chunk's
\* hash, a chunk whose file holds other content (truncated, a byte
\* changed) exactly when verify is set, and nothing but chunks of the
\* input. (The store is as the filter saw it while pc = "filtered".)
C5_FetchSetIsAbsentOrCorrupt ==
    cl.pc = "filtered" =>
        /\ cl.fetch_set \subseteq SourceIndex(dictionary)
        /\ \A hash \in SourceIndex(dictionary) :
            /\ ~Present(hash) => hash \in cl.fetch_set
            /\ (Present(hash) /\ HashesToItsHash(hash)) => hash \notin cl.fetch_set
            /\ (/\ Present(hash)
                /\ ChunkPath(hash) \notin unreadable
                /\ ~HashesToItsHash(hash)) => (hash \in cl.fetch_set <=> cl.verify)

\* C5's case: a verifying filter has kept a valid chunk out of the fetch
\* set and put a chunk with a changed byte into it.
C5_Witness ==
    /\ cl.pc = "filtered"
    /\ cl.verify
    /\ \E good, corrupt \in SourceIndex(dictionary) :
        /\ Present(good) /\ HashesToItsHash(good) /\ good \notin cl.fetch_set
        /\ Present(corrupt) /\ corrupt \in cl.fetch_set
        /\ Len(FileOf(corrupt)) = Len(ArchiveChunk(dictionary, corrupt))
        /\ FileOf(corrupt) # ArchiveChunk(dictionary, corrupt)

\* C6: with verify, a chunk whose file can be opened is left out of the
\* fetch set only if the file was read to the end and its digest equals
\* the chunk's hash; a chunk whose read fails is in the fetch set.
C6_VerifiedKeptOutOnlyIfDigestMatches ==
    (cl.pc = "filtered" /\ cl.verify) =>
        \A hash \in SourceIndex(dictionary) :
            (Present(hash) /\ hash \notin cl.fetch_set) =>
                /\ ChunkPath(hash) \notin unreadable
                /\ HashesToItsHash(hash)

\* C7: after write_chunk(hash, bytes) has returned successfully the chunk
\* file holds exactly bytes, whatever it held before.
C7_WrittenChunkFileIsExact ==
    \A i \in 1..Len(cl.written) :
        FileOf(cl.written[i]) = ArchiveChunk(dictionary, cl.written[i])

\* The bytes of the header the run has written to the output file.
HeaderWritten == SubSeq(output.bytes, 1, cl.header_written)

\* C8: when the ingestion before this one ran with verification and
\* completed, this ingestion of the same archive with verification computes
\* an empty fetch set, transfers no chunk, and writes the same header.
C8_SecondVerifiedIngestionFetchesNothing ==
    (prev.verified_done /\ cl.verify /\ cl.force) =>
        /\ cl.pc \in {"filtered", "fetching", "done"} =>
                cl.fetch_set = {} /\ cl.transferred = 0
        /\ cl.pc = "done" => HeaderWritten = prev.header

RunFailedBeforeHeader ==
    /\ cl.pc = "panicked"
    /\ cl.why \in {"init archive", "clone from archive: transfer",
                   "clone from archive: write_chunk", "write chunk file"}

\* C9: header bytes reach the output file only in a step taken after the
\* manifest was decoded, the fetch set computed and every chunk of it
\* retrieved and written; a run that failed at the manifest, a transfer or
\* a chunk write has written no header byte.
C9_HeaderAllOrNothing ==
    /\ [](RunFailedBeforeHeader => cl.header_written = 0)
    /\ [][(output'.bytes # output.bytes \/ cl'.header_written > cl.header_written) =>
            /\ cl.pc \in {"filtered", "fetching"}
            /\ cl.chunks_left = {}
            /\ cl.fetch_set = SeqRange(cl.written)
            /\ \A hash \in cl.fetch_set : Present(hash)]_vars

\* C9's case: a run that had written one chunk failed at the transfer of
\* the next, and the output file holds no byte.
C9_Witness ==
    /\ cl.pc = "panicked"
    /\ cl.why = "clone from archive: transfer"
    /\ cl.transferred = 1
    /\ output.exists
    /\ output.bytes = <<>>

(***************************************************************************)
(* Mount of a changed header: claim C11.                                   *)
(***************************************************************************)
\* The positions at which the header file differs from the header the
\* ingestion wrote.
ChangedPositions ==
    LET written == build_store_header(dictionary)
    IN  {i \in 1..Len(output.bytes) : output.bytes[i] # written[i]}

\* The section of the header a position lies in.
SectionOf(pos) ==
    LET dict_end == 14 + Len(EncodeDictionary(dictionary))
    IN  IF pos <= 6 THEN "magic"
        ELSE IF pos <= 14 THEN "length"
        ELSE IF pos <= dict_end THEN "dictionary"
        ELSE "digest"

\* The file's trailing digest equals the digest of the magic, the length
\* field and the dictionary bytes the length field announces.
StoredDigestMatches ==
    LET bytes == output.bytes
        dict_size == FromLeBytes(SubSeq(bytes, 7, 14))
    IN  /\ Len(bytes) >= 14 + dict_size + 64
        /\ SubSeq(bytes, 15 + dict_size, 14 + dict_size + 64)
                = Blake2b(SubSeq(bytes, 1, 14 + dict_size))

\* C11: mount of a file that starts with the store magic gets to the
\* making of the device only if the stored digest equals the digest of the
\* bytes read; with one byte of the length field, the dictionary or the
\* digest of a valid header changed, mount panics and no device is made.
C11_ChangedHeaderIsRejected ==
    (/\ mnt.status # "none"
     /\ Len(output.bytes) >= 6
     /\ SubSeq(output.bytes, 1, 6) = STORE_MAGIC) =>
        /\ mnt.status = "ihop" => StoredDigestMatches
        /\ ChangedPositions # {} => mnt.status = "panic"

\* C11's cases: the mount of a header with a changed dictionary byte, with
\* a changed length byte, with a changed digest byte has panicked.
C11_Witness ==
    /\ mnt.status = "panic"
    /\ mnt.why = "header checksum mismatch"
    /\ \E pos \in ChangedPositions : SectionOf(pos) = "dictionary"

C11_WitnessLength ==
    /\ mnt.status = "panic"
    /\ \E pos \in ChangedPositions : SectionOf(pos) = "length"

C11_WitnessDigest ==
    /\ mnt.status = "panic"
    /\ \E pos \in ChangedPositions : SectionOf(pos) = "digest"

(***************************************************************************)
(* The protocol server's framing: claims C12 and C13.                      *)
(***************************************************************************)
\* The i-th record of a run of cells, field by field.
RecordAt(cells, i) ==
    LET offs == (i - 1) * SIZE_OF_REQUEST
    IN  [magic |-> cells[offs + 1], command |-> cells[offs + 2],
         handle |-> cells[offs + 3], from |-> cells[offs + 4],
         len |-> cells[offs + 5]]

\* The cells are k whole request records.
WholeRecords(cells, k) ==
    /\ Len(cells) = k * SIZE_OF_REQUEST
    /\ \A i \in 1..k :
          /\ RecordAt(cells, i).magic = REQUEST_MAGIC
          /\ RecordAt(cells, i).command \in Commands

\* A step of read_next in which the receive returned cells.
ReceivedCells == srv.pc = "recv" /\ srv' # srv /\ srv'.n > 0

\* C12: a receive that returns k whole records, k from 1 to
\* MAX_BATCH_REQUESTS, is no error and decodes to those k requests, in the
\* order and with the field values of the records; no batch holds more than
\* MAX_BATCH_REQUESTS requests.
C12_WholeRecordsDecodeInOrder ==
    /\ [](srv.pc \in {"process", "write"} => Len(srv.requests) \in 1..MAX_BATCH_REQUESTS)
    /\ [][ReceivedCells =>
            LET received == SubSeq(wire.to_server, 1, srv'.n)
            IN  \A k \in 1..MAX_BATCH_REQUESTS :
                    WholeRecords(received, k) =>
                        /\ srv'.pc = "process"
                        /\ Len(srv'.requests) = k
                        /\ \A i \in 1..k :
                              /\ srv'.requests[i].command = RecordAt(received, i).command
                              /\ srv'.requests[i].handle = RecordAt(received, i).handle
                              /\ srv'.requests[i].from = RecordAt(received, i).from
                              /\ srv'.requests[i].len = RecordAt(received, i).len]_vars

\* C12's cases: a full batch decoded with a fifth request still on the
\* wire; a short read of two records decoded.
C12_Witness ==
    /\ srv.pc = "process"
    /\ srv.n = MAX_BATCH_REQUESTS * SIZE_OF_REQUEST
    /\ Len(srv.requests) = MAX_BATCH_REQUESTS
    /\ \A i \in 1..MAX_BATCH_REQUESTS : srv.requests[i].handle = i
    /\ Len(wire.to_server) = SIZE_OF_REQUEST

C12_WitnessShortRead ==
    /\ srv.pc = "process"
    /\ srv.n = 2 * SIZE_OF_REQUEST
    /\ Len(srv.requests) = 2
    /\ wire.sent = 2

\* C13: the requests being served never come from a receive that ended
\* inside a record: such a receive is a decode error.
C13_PartRecordIsDecodeError ==
    srv.pc \in {"process", "write"} => srv.n % SIZE_OF_REQUEST = 0

(***************************************************************************)
(* The protocol server's replies: claims C14, C15 and C16.                 *)
(***************************************************************************)
\* The payload cells that follow the reply to a request.
PayloadCells(request) == IF request.command = CmdRead THEN request.len ELSE 0

\* The cells read as the replies to the requests from the i-th on, each a
\* reply record with its payload after it: the error and handle of each,
\* or a framing failure.
RECURSIVE ParseReplies(_, _, _, _, _)
ParseReplies(cells, pos, requests, i, parsed) ==
    IF i > Len(requests)
    THEN [framed |-> pos = Len(cells) + 1, replies |-> parsed]
    ELSE LET after == pos + SIZE_OF_REPLY + PayloadCells(requests[i])
         IN  IF after > Len(cells) + 1 \/ cells[pos] # REPLY_MAGIC
             THEN [framed |-> FALSE, replies |-> parsed]
             ELSE ParseReplies(cells, after, requests, i + 1,
                               Append(parsed, [error |-> cells[pos + 1],
                                               handle |-> cells[pos + 2]]))

\* The cells are one reply to each of the requests, in their order, each
\* with the handle of its request.
RepliesInOrder(cells, requests) ==
    LET parsed == ParseReplies(cells, 1, requests, 1, <<>>)
    IN  /\ parsed.framed
        /\ Len(parsed.replies) = Len(requests)
        /\ \A i \in 1..Len(requests) : parsed.replies[i].handle = requests[i].handle

\* C14: nothing is written to the socket while a batch is processed; the
\* one write that follows holds the replies to all requests of the batch,
\* in the order the requests were decoded, each with its request's handle;
\* and the next receive comes only after that write.
C14_RepliesOfABatchInOrder ==
    /\ [](srv.pc = "process" => wire.written = <<>>)
    /\ []((srv.pc = "recv" /\ srv.requests # <<>>) =>
            /\ srv.reply_buf = <<>>
            /\ RepliesInOrder(wire.written, srv.requests))
    /\ [][(wire'.written # wire.written /\ wire'.written # <<>>) =>
            /\ srv.pc = "write"
            /\ srv.next = Len(srv.requests) + 1]_vars
    /\ [][ReceivedCells => (srv.reply_buf = <<>> /\ srv.next = Len(srv.requests) + 1)]_vars

\* C14's case: the replies to a batch of three requests, a read with its
\* payload among them, have been written and the server is back in receive.
C14_Witness ==
    /\ srv.pc = "recv"
    /\ Len(srv.requests) = 3
    /\ \E i \in 1..3 : srv.requests[i].command = CmdRead /\ srv.requests[i].len > 0
    /\ RepliesInOrder(wire.written, srv.requests)
    /\ Len(wire.written) > 3 * SIZE_OF_REPLY

\* The step in which the server comes to a request of an unimplemented
\* command.
AtUnimplemented ==
    /\ srv.pc = "process"
    /\ srv' # srv
    /\ srv.requests[srv.next].command \in {CmdWrite, CmdDisc, CmdTrim, CmdWriteZeroes}

\* C15: at a Write, Disconnect, Trim or WriteZeroes request the server
\* panics: no reply to it is made, nothing is written to the socket, the
\* loop is left; no request of the batch past it is answered, and a panic
\* is never the outcome of a failing read.
C15_UnimplementedFailsLoudly ==
    /\ [][AtUnimplemented =>
            /\ srv'.result = "panic"
            /\ srv'.why = "not implemented"
            /\ srv'.pc \in {"join", "aborted"}
            /\ wire'.written = wire.written]_vars
    /\ [](srv.pc \in {"process", "write"} =>
            \A i \in 1..(srv.next - 1) :
                srv.requests[i].command \in {CmdRead, CmdFlush})
    /\ [](srv.result = "panic" => (srv.why = "not implemented" /\ wire.written = <<>>))

\* C15's case: the server panicked at the second request of a batch, the
\* reply to the first in reply_buf and nothing of the batch written.
C15_Witness ==
    /\ srv.pc = "aborted"
    /\ srv.result = "panic"
    /\ srv.next = 2
    /\ srv.reply_buf # <<>>
    /\ srv.requests[2].command = CmdTrim
    /\ wire.written = <<>>

\* The reply the server has just put in reply_buf: its last cells.
LastReply ==
    LET request == srv.requests[srv.next - 1]
        start == Len(srv.reply_buf) - PayloadCells(request) - SIZE_OF_REPLY
    IN  [magic |-> srv.reply_buf[start + 1], error |-> srv.reply_buf[start + 2],
         handle |-> srv.reply_buf[start + 3]]

\* C16: a Read whose backend read fails is answered with its handle and a
\* non-zero error code, the OS error code or EIO, and the server goes on
\* with the batch; a Read that succeeds and a Flush are answered with
\* error 0.
C16_ReadErrorIsReplied ==
    /\ [][(srv.pc = "process" /\ srv' # srv
           /\ srv.requests[srv.next].command \in {CmdRead, CmdFlush}) =>
            /\ srv'.pc \in {"process", "write"}
            /\ srv'.next = srv.next + 1
            /\ srv'.requests = srv.requests]_vars
    /\ []((srv.pc \in {"process", "write"} /\ srv.next > 1) =>
            /\ LastReply.magic = REPLY_MAGIC
            /\ LastReply.handle = srv.requests[srv.next - 1].handle
            /\ srv.read_result \in {"ok", "none"} => LastReply.error = 0
            /\ srv.read_result = "os error" => LastReply.error = ENOSPC
            /\ srv.read_result = "other error" => LastReply.error = EIO
            /\ srv.read_result \in {"os error", "other error"} => LastReply.error # 0)

\* C16's case: the first read of a batch failed, its reply carries the
\* error, and the second request has been answered after it.
C16_Witness ==
    /\ srv.pc = "write"
    /\ Len(srv.requests) = 2
    /\ srv.requests[1].command = CmdRead
    /\ srv.reply_buf[2] # 0
    /\ srv.reply_buf[3] = srv.requests[1].handle
    /\ srv.read_result = "ok"
    /\ LastReply.error = 0

(***************************************************************************)
(* The protocol server's start and end: claims C18 and C20.                *)
(***************************************************************************)
CallNames == [i \in 1..Len(calls) |-> calls[i].call]

\* The place of the first call of a name in the log, 0 when there is none.
FirstCall(name) ==
    IF \E i \in 1..Len(calls) : calls[i].call = name
    THEN CHOOSE i \in 1..Len(calls) :
            /\ calls[i].call = name
            /\ \A j \in 1..(i - 1) : calls[j].call # name
    ELSE 0

WorkerStarted == worker.state # "none"

\* C18: new_device, its worker started, returns only after disconnect was
\* issued, the server's end of the pair closed and the worker joined, in
\* that order; it returns Ok when the peer closed, and the error of the
\* receive, the decoding or the write otherwise, whatever the worker
\* returned.
C18_TeardownBeforeReturn ==
    /\ []((srv.pc = "returned" /\ WorkerStarted) =>
            /\ FirstCall("disconnect") > 0
            /\ wire.server_end = "released"
            /\ worker.state = "joined"
            /\ srv.why = "peer closed" => srv.result = "ok"
            /\ srv.why \in {"receive", "decode", "write"} => srv.result = "err")
    /\ [][(srv'.pc = "returned" /\ srv.pc # "returned" /\ WorkerStarted) =>
            /\ FirstCall("disconnect") > 0
            /\ wire.server_end = "released"
            /\ worker.state = "ended"
            /\ worker'.state = "joined"
            /\ srv'.result = srv.result]_vars
    /\ [][(wire'.server_end = "released" /\ wire.server_end # "released") =>
            (worker.state # "joined" /\ calls' = Append(calls, Call("main", "disconnect")))]_vars

\* C18's cases: the peer closed, the worker ended with an error, and
\* new_device has returned Ok; a write failed and new_device has returned
\* the error.
C18_Witness ==
    /\ srv.pc = "returned"
    /\ srv.why = "peer closed"
    /\ srv.result = "ok"
    /\ worker = [state |-> "joined", result |-> "err"]
    /\ wire.server_end = "released"

C18_WitnessWriteFailed ==
    /\ srv.pc = "returned"
    /\ srv.why = "write"
    /\ srv.result = "err"
    /\ worker.state = "joined"

\* C20: the worker is started only after set-block-size, set-size-in-blocks,
\* set-timeout and clear-socket were issued, in that order, and none
\* failed; when one fails there is no worker and no request; the worker
\* issues set-kernel-socket, then set-flags, then activate, and nobody else
\* issues activate.
C20_NegotiationOrder ==
    /\ WorkerStarted =>
            /\ Len(calls) >= 4
            /\ SubSeq(CallNames, 1, 4)
                    = <<"set_block_size", "set_size_blocks", "set_timeout", "clear_sock">>
            /\ \A i \in 1..4 : calls[i].by = "main"
            /\ srv.why \notin {"open", "set_block_size", "set_size_blocks",
                               "set_timeout", "clear_sock", "try_clone"}
    /\ srv.why \in {"open", "set_block_size", "set_size_blocks", "set_timeout",
                    "clear_sock", "try_clone"} =>
            /\ srv.pc = "returned" /\ srv.result = "err"
            /\ ~WorkerStarted
            /\ wire.sent = 0
            /\ FirstCall("set_sock") = 0 /\ FirstCall("do_it") = 0
    /\ \A i \in 1..Len(calls) :
            calls[i].call \in {"set_sock", "set_flags", "do_it"} =>
                (calls[i].by = "worker" /\ i > 4)
    /\ FirstCall("set_flags") > 0 =>
            (FirstCall("set_sock") > 0 /\ FirstCall("set_sock") < FirstCall("set_flags"))
    /\ FirstCall("do_it") > 0 =>
            (FirstCall("set_flags") > 0 /\ FirstCall("set_flags") < FirstCall("do_it"))
    /\ wire.sent > 0 => FirstCall("do_it") > 0

\* C20's case: the loop is processing a request while the worker is
\* blocked in activate.
C20_Witness ==
    /\ srv.pc = "process"
    /\ worker.state = "do_it"
    /\ CallNames = <<"set_block_size", "set_size_blocks", "set_timeout", "clear_sock",
                     "set_sock", "set_flags", "do_it">>

(***************************************************************************)
(* The plain-file device: claim C17.                                       *)
(***************************************************************************)
\* The file's bytes at [offset, offset + len), zeros from the end of the
\* file on.
FileBytesZeroFilled(bytes, offset, len) ==
    [i \in 1..len |-> IF offset + i <= Len(bytes) THEN bytes[offset + i] ELSE 0]

\* C17: after every read of the plain-file device current_file_offs is
\* the position of the file handle; a read that succeeds leaves in buf
\* the file's bytes at [offset, offset + len), zeros from the end of the
\* file on; a read fails only when the seek or a read of the file fails;
\* the device has ceil(file length / block size) blocks.
C17_PlainFileReads ==
    fdev.state = "mounted" =>
        /\ fdev.last.result # "none" => fdev.current_file_offs = fdev.pos
        /\ fdev.last.result = "ok" =>
                fdev.last.buf = FileBytesZeroFilled(fdev.bytes, fdev.last.offset, fdev.last.len)
        /\ fdev.last.result = "err" => fdev.last.failed \in {"seek", "read"}
        /\ fdev.block_count * fdev.block_size >= Len(fdev.bytes)
        /\ fdev.block_count * fdev.block_size < Len(fdev.bytes) + fdev.block_size

(***************************************************************************)
(* The chunked device's size: claim C19.                                   *)
(***************************************************************************)
AdvertisedSize == device.block_count * device.block_size

\* C19: the chunked device has floor(source_total_size / block_size)
\* blocks; on a device made from a header of positive chunk sizes whose
\* sum along source_order is source_total_size, a read that ends inside
\* the advertised size ends inside the range the index covers and
\* succeeds, and the bytes past the last whole block are outside the
\* advertised size.
C19_AdvertisedSizeIsCovered ==
    device.state = "built" =>
        /\ AdvertisedSize <= dictionary.source_total_size
        /\ dictionary.source_total_size < AdvertisedSize + device.block_size
        /\ (/\ PositiveSizes(dictionary)
            /\ CoveredEnd = dictionary.source_total_size
            /\ rd.status # "none"
            /\ rd.offset + rd.len <= AdvertisedSize) =>
                /\ rd.offset + rd.len <= CoveredEnd
                /\ rd.status = "ok"

\* C19's case: a total size that is no multiple of the block size, and a
\* read of the last whole block served.
C19_Witness ==
    /\ device.state = "built"
    /\ PositiveSizes(dictionary)
    /\ CoveredEnd = dictionary.source_total_size
    /\ dictionary.source_total_size % device.block_size # 0
    /\ device.block_count > 0
    /\ rd.status = "ok"
    /\ rd.len = device.block_size
    /\ rd.offset + rd.len = AdvertisedSize

(***************************************************************************)
(* The protocol server's reply framing: claim C24.                         *)
(***************************************************************************)
\* The step in which the server answers the next request of the batch.
Answered ==
    /\ srv.pc = "process"
    /\ srv'.pc \in {"process", "write"}
    /\ srv'.next = srv.next + 1

\* What the step appended to reply_buf.
AppendedReply == SubSeq(srv'.reply_buf, Len(srv.reply_buf) + 1, Len(srv'.reply_buf))

\* C24: the reply appended for a request is the reply header, followed by
\* exactly request.len payload bytes when the request is a Read whose
\* backend read succeeded, and by nothing when it is a Flush or a Read
\* whose backend read failed; the bytes written for a batch are the
\* replies appended, in one piece.
C24_ReplyFraming ==
    /\ [][Answered =>
            LET request == srv.requests[srv.next]
            IN  /\ SubSeq(srv'.reply_buf, 1, Len(srv.reply_buf)) = srv.reply_buf
                /\ Len(AppendedReply) =
                      SIZE_OF_REPLY +
                      (IF request.command = CmdRead /\ srv'.read_result = "ok"
                       THEN request.len ELSE 0)
                /\ AppendedReply[1] = REPLY_MAGIC
                /\ AppendedReply[3] = request.handle]_vars
    /\ [][(srv.pc = "write" /\ srv'.pc = "recv") => wire'.written = srv.reply_buf]_vars

(***************************************************************************)
(* The protocol server's batches: claim C21.                               *)
(***************************************************************************)
\* The step in which a receive is decoded into the next batch.
BatchDecoded == srv.pc = "recv" /\ srv'.pc = "process"

\* C21: when the processing of a batch starts reply_buf is empty and the
\* request list holds the records decoded from this receive and no other;
\* every request of the batch is answered once, and the answers are
\* written once and dropped from reply_buf; no request of the batch
\* before is in the new batch, to be processed and answered again.
C21_SingleOutstandingBatch ==
    /\ [][BatchDecoded =>
            /\ srv'.reply_buf = <<>>
            /\ srv'.next = 1
            /\ Len(srv'.requests) = DecodedSlots(srv'.n)
            /\ \A i \in 1..Len(srv'.requests), j \in 1..Len(srv.requests) :
                    srv'.requests[i].handle # srv.requests[j].handle]_vars
    /\ [][(srv.pc = "process" /\ srv'.pc \in {"process", "write"} /\ srv' # srv) =>
            (srv'.next = srv.next + 1 /\ srv'.requests = srv.requests)]_vars
    /\ [][(srv.pc = "write" /\ srv'.pc = "recv") =>
            (/\ srv.next = Len(srv.requests) + 1
             /\ wire'.written = srv.reply_buf
             /\ srv'.reply_buf = <<>>)]_vars

(***************************************************************************)
(* The index a device is made with: claim C22.                             *)
(***************************************************************************)
SizeAt(d, k) == d.chunk_descriptors[d.source_order[k] + 1].source_size

\* One interval for each element of source_order: the k-th starts at the
\* sum of the sizes of the elements before it, has the size of its chunk
\* and maps to the path of its chunk's hash.
Layout(d) ==
    [k \in 1..Len(d.source_order) |->
        [offset |-> SumSizes(d.chunk_descriptors, SubSeq(d.source_order, 1, k - 1)),
         size |-> SizeAt(d, k),
         value |-> ChunkPath(d.chunk_descriptors[d.source_order[k] + 1].checksum)]]

\* The intervals of an index in key order start at 0, each starts where
\* the one before ends, and the last ends at end.
Gapless(map, end) ==
    /\ map # <<>> => (map[1].offset = 0 /\ End(map[Len(map)]) = end)
    /\ \A i \in 1..(Len(map) - 1) : map[i + 1].offset = End(map[i])

\* No element of source_order of size 0 is followed by another of size 0.
NoAdjacentEmpty(d) ==
    \A k \in 1..(Len(d.source_order) - 1) : SizeAt(d, k) > 0 \/ SizeAt(d, k + 1) > 0

\* C22 as stated, for every header of valid indices: the index is the
\* layout, one interval for each element of source_order.
C22_IndexIsLayoutForAnyHeader ==
    device.state = "built" => device.chunk_location_map = Layout(dictionary)

\* C22, for headers of valid indices in which no two elements of
\* source_order next to each other both have size 0: the index holds one
\* interval for each element of source_order, the k-th at the sum of the
\* sizes before it, with its chunk's size and the path of its chunk's
\* hash; the intervals start at 0, are gapless and end at the sum of the
\* sizes; for every header of valid indices the intervals of the index are
\* among those of the layout and gapless; no read changes the index.
C22_IndexIsLayout ==
    /\ [](device.state = "built" =>
            /\ ValidOrder(dictionary)
            /\ NoAdjacentEmpty(dictionary) =>
                    device.chunk_location_map = Layout(dictionary)
            /\ SeqRange(device.chunk_location_map) \subseteq SeqRange(Layout(dictionary))
            /\ Gapless(device.chunk_location_map, CoveredEnd))
    /\ [][device.state = "built" => device' = device]_vars

\* C22's case: an index of three intervals, the one in the middle empty,
\* and a read served from it.
C22_Witness ==
    /\ device.state = "built"
    /\ dictionary.source_order = <<0, 1, 0>>
    /\ SizeAt(dictionary, 1) = 2
    /\ SizeAt(dictionary, 2) = 0
    /\ Len(device.chunk_location_map) = 3
    /\ rd.status = "ok"
    /\ rd.len > 0

(***************************************************************************)
(* The arithmetic of a chunked-device read: claim C25.                     *)
(***************************************************************************)
\* C25: in a read of a device made by make_device from a header of valid
\* indices, chunks of size 0 included, neither offset - location.offset
\* nor location.size - offset_in_file underflows at any interval visited
\* (a build that checks the arithmetic does not panic at it), and
\* buf_offset does not pass the length of the buffer.
C25_ReadArithmeticInBounds ==
    (device.state = "built" /\ rd.status # "none") =>
        /\ rd.why # "attempt to subtract with overflow"
        /\ rd.buf_offset <= rd.len

(***************************************************************************)
(* The end of the teardown: claim C23.                                     *)
(***************************************************************************)
\* C23: once the stream is dropped and Drop waits in join, the worker
\* ends, the join completes and new_device returns, wherever the worker
\* was when disconnect was issued and the socket released, and whether
\* its set_sock and do_it succeed or fail; the kernel is taken to end
\* do_it once the server's end of the pair is closed or the device is
\* disconnected.
C23_TeardownTerminates ==
    (srv.pc = "join") ~> (srv.pc = "returned" /\ worker.state = "joined")

\* C23's cases: the teardown has run and the worker has not yet issued
\* set_sock; the teardown has run, the worker blocked in do_it.
C23_Witness ==
    /\ srv.pc = "join"
    /\ srv.why = "receive"
    /\ worker.state = "set_sock"
    /\ wire.server_end = "released"

C23_WitnessInDoIt ==
    /\ srv.pc = "join"
    /\ worker.state = "do_it"
    /\ wire.server_end = "released"

====
